---- MODULE Spec2Model ----
(***************************************************************************)
(* State machine of the auto-update scheduler of btt_auto.py               *)
(* (class BTTAutoManager), its two control threads (the terminal thread    *)
(* running main()/show_menu() and the single-threaded HTTPServer thread    *)
(* running WebhookHandler) and the scheduler loop threads it spawns; and   *)
(* the bridge functions taken on their own: run_adb, run_adb_with_root     *)
(* (btt_auto.py and getsql.py), test_adb_connection command by command,    *)
(* and extract_sqlite_data_from_device under run_getsql.                   *)
(***************************************************************************)
EXTENDS Integers, Sequences, FiniteSets, TLC

(* ---- bounds of the model ------------------------------------------------ *)
\* number of auto_update_loop threads that can be alive at the same time
MaxLoops == 2
\* length of the output a command prints
MaxOut == 3

(* ---- program constants --------------------------------------------------- *)
MinInterval == 1
MaxInterval == 1440
DefaultInterval == 5
\* self.auto_thread = None
NoThread == 0
\* self.next_update_time = None
NoTime == 0
\* "preferred_device": None
NoPreferred == "None"

Loops == 1..MaxLoops
\* "main": the thread of main() / show_menu(); "web": the HTTPServer thread
Callers == {"main", "web"}
\* the addresses known to the adb server in this model
Addrs == {"a1"}
\* inputs of set_interval
IntervalInputs == {0 - 3, 0, 5, 1441, 99999}

VARIABLES
    config,            \* self.config: auto_enabled, interval_minutes, adb_ips
    disk,              \* the document in CONFIG_FILE
    auto_enabled,      \* self.auto_enabled
    running,           \* self.running
    auto_thread,       \* self.auto_thread: NoThread or a loop thread
    next_update_time,  \* self.next_update_time: NoTime, or the minutes added to now
    mode,              \* sys.stdin.isatty(): "interactive" or "daemon"
    pc,                \* position of each control thread
    ret,               \* result of the toggle request the web thread handled last
    loopPc,            \* position of each auto_update_loop thread
    net,               \* per address: what ping, adb connect and adb devices answer
    lastCtl,           \* "skipped": the last start_auto_update found the loop running;
                       \* "stopped": stop_auto_update returned and no start was called since
    adb,               \* one call of run_adb: the subprocess, what was returned
    esc,               \* one call of run_adb_with_root: the tiers, what was returned
    probe,             \* one call of test_adb_connection, command by command
    pipe,              \* one call of run_getsql / extract_sqlite_data_from_device
    wbuf,              \* per control thread: the buffer of the file object it holds
                       \* open on CONFIG_FILE inside save_config, when it holds one
    http               \* the last POST request WebhookHandler answered, and its answer

vars == <<config, disk, auto_enabled, running, auto_thread, next_update_time,
          mode, pc, ret, loopPc, net, lastCtl, adb, esc, probe, pipe, wbuf, http>>

\* the manager and its threads
managerVars == <<config, disk, auto_enabled, running, auto_thread, next_update_time,
                 mode, pc, ret, loopPc, lastCtl>>
\* the calls of the bridge functions, the file object of save_config and the
\* answers of the registry and probe endpoints, which the scheduler steps abstract
toolVars == <<adb, esc, probe, pipe, wbuf, http>>

schedVars == <<config, disk, auto_enabled, running, auto_thread, next_update_time>>

(* ---- the device side ------------------------------------------------------ *)
\* answers of one address: ping return code 0, 'connected' printed by
\* adb connect with return code 0, return code 0 of adb devices, and the
\* state of the address's line in the adb devices list
Unreachable == [ping |-> FALSE, connect |-> FALSE, devices_ok |-> TRUE, line |-> "absent"]
Online == [ping |-> TRUE, connect |-> TRUE, devices_ok |-> TRUE, line |-> "device"]
NetStates == {Unreachable, Online}
\* every combination of answers, for the probe taken command by command
LineStates == {"absent", "device", "unauthorized", "offline"}
ProbeNetStates == [ping : BOOLEAN, connect : BOOLEAN, devices_ok : BOOLEAN,
                   line : LineStates]

\* test_adb_connection(ip): <<connected, unauthorized>>
test_adb_connection(ip) ==
    IF ~net[ip].ping THEN <<FALSE, FALSE>>
    ELSE IF net[ip].connect
         THEN IF net[ip].devices_ok /\ net[ip].line = "unauthorized" THEN <<FALSE, TRUE>>
              ELSE IF net[ip].devices_ok /\ net[ip].line = "device" THEN <<TRUE, FALSE>>
              ELSE <<FALSE, FALSE>>
         ELSE <<FALSE, FALSE>>

\* the loop over get_adb_ips() in toggle_auto_update_webhook and serve_status
any_connected ==
    \E i \in 1..Len(config.adb_ips) : test_adb_connection(config.adb_ips[i].ip)[1]

\* get_connected_device() is not None: some line of adb devices is online,
\* whether its address is registered or not
get_connected_device == \E a \in Addrs : net[a].line = "device"

\* try_connect_adb_ips(): adb connect answers 'connected' for a stored address
try_connect_adb_ips ==
    \E i \in 1..Len(config.adb_ips) : net[config.adb_ips[i].ip].connect

(* ---- helpers --------------------------------------------------------------- *)
\* save_config(): the whole in-memory config replaces the document
save_config(c) == c

\* a clamp that forgets the upper limit
ClampInterval_NoUpper(minutes) ==
    IF minutes < MinInterval THEN MinInterval ELSE minutes

\* the clamp of set_interval
ClampInterval(minutes) ==
    IF minutes < MinInterval THEN MinInterval
    ELSE IF minutes > MaxInterval THEN MaxInterval
    ELSE minutes

\* auto_thread.is_alive()
Alive(l) == loopPc[l] # "dead"
\* the thread is inside the while loop of auto_update_loop
InLoop(l) == loopPc[l] \in {"top", "probe", "run", "sleep", "backoff", "sleeping"}
\* the thread is inside time.sleep(): in its first slice, or in a later one
Sleeping(l) == loopPc[l] \in {"sleep", "backoff", "sleeping"}
\* positions where the loop thread blocks for seconds or minutes: an adb
\* command, the pipeline, a sleep
Blocked(l) == loopPc[l] \in {"probe", "run", "sleep", "backoff", "sleeping"}
FreeSlots == {l \in Loops : ~Alive(l)}

Rejection == [success |-> FALSE, error |-> "No ADB device connected", autoEnabled |-> FALSE]
Toggled(state) == [success |-> TRUE, error |-> "", autoEnabled |-> state]
NoResult == [success |-> FALSE, error |-> "", autoEnabled |-> FALSE]

\* the value toggle_auto_update_webhook returns after start/stop_auto_update
Return(t, cfg) == IF t = "web" THEN ret' = Toggled(cfg.auto_enabled) ELSE ret' = ret
\* a new request of the web thread clears the result of the previous one
Request(t) == IF t = "web" THEN ret' = NoResult ELSE ret' = ret

\* no thread is inside save_config
NoBuffers == [t \in Callers |-> <<>>]
\* no POST request was answered yet
NoRequest == [req |-> <<>>, before |-> <<>>, code |-> 0, body |-> [status |-> "none"]]

InStart(t) == pc[t] \in {"start_check", "start_set"}
InStop(t) == pc[t] = "stop_join"

(* ---- run_adb ------------------------------------------------------------------ *)
\* characters of a captured stdout: two kinds of whitespace and a letter
Chars == {" ", "\n", "x"}
Whitespace == {" ", "\n"}
Strings == UNION {[1..n -> Chars] : n \in 0..MaxOut}
\* what subprocess.run(cmd, shell=True, capture_output=True, timeout=...) does:
\* return code zero, return code not zero, TimeoutExpired, any other exception
ProcStatus == {"exit0", "nonzero", "timeout", "spawn_error"}
\* the two copies of run_adb: btt_auto.py and getsql.py (which also logs)
RunAdbVariants == {"btt_auto", "getsql"}

\* the values run_adb returns: None, or a string
None == [kind |-> "None", value |-> <<>>]
Str(s) == [kind |-> "str", value |-> s]

RECURSIVE lstrip(_)
lstrip(s) == IF s # <<>> /\ Head(s) \in Whitespace THEN lstrip(Tail(s)) ELSE s
RECURSIVE rstrip(_)
rstrip(s) ==
    IF s # <<>> /\ s[Len(s)] \in Whitespace THEN rstrip(SubSeq(s, 1, Len(s) - 1)) ELSE s
\* str.strip()
strip(s) == rstrip(lstrip(s))

\* a run_adb that returns the captured output as it is
run_adb_Untrimmed(status, stdout) ==
    CASE status = "exit0" -> Str(stdout)
      [] status = "nonzero" -> None
      [] status = "timeout" -> None
      [] status = "spawn_error" -> None

\* run_adb(cmd) with capture_output at its default, as every caller leaves it:
\* the value returned for what subprocess.run did
run_adb(status, stdout) ==
    CASE status = "exit0" -> Str(strip(stdout))
      [] status = "nonzero" -> None          \* if result.returncode != 0
      [] status = "timeout" -> None          \* except subprocess.TimeoutExpired
      [] status = "spawn_error" -> None      \* except Exception

\* no call of run_adb is in progress
AdbIdle == [pc |-> "idle", variant |-> "btt_auto", status |-> "exit0",
            stdout |-> <<>>, ret |-> None, spawns |-> 0, logged |-> 0]

\* one call: subprocess.run is called once, its outcome decides the value
\* returned; the getsql.py copy appends one line to its log on each failure
RunAdb ==
    /\ adb.pc = "call"
    /\ adb' = [adb EXCEPT !.pc = "returned",
                          !.ret = run_adb(adb.status, adb.stdout),
                          !.spawns = @ + 1,
                          !.logged = IF adb.variant = "getsql" /\ adb.status # "exit0"
                                     THEN @ + 1 ELSE @]
    /\ UNCHANGED <<managerVars, wbuf, http, net, esc, probe, pipe>>

(* ---- run_adb_with_root -------------------------------------------------------- *)
\* the tier names the function returns
AllTiers == {"non-root", "su0", "suc"}
\* the tiers each copy tries, in the order of its code
EscTiers(variant) ==
    IF variant = "btt_auto" THEN <<"non-root", "su0", "suc">>   \* btt_auto.py
    ELSE <<"non-root", "suc">>                                  \* getsql.py
\* what run_adb returns for the command of a tier: None, an output holding
\* 'Permission denied', or any other output
TierResults == {"None", "denied", "output"}
\* out is not None and 'Permission denied' not in str(out)
TierSucceeds(r) == r = "output"

EscIdle == [pc |-> "idle", variant |-> "btt_auto",
            out |-> [t \in AllTiers |-> "None"], next |-> 1, tried |-> <<>>,
            ret |-> [out |-> "None", tier |-> "none"]]

\* the command of the next tier is run: its output is returned with the tier
\* name if it succeeds, otherwise the function goes on to the next tier
EscTry ==
    /\ esc.pc = "call"
    /\ esc.next <= Len(EscTiers(esc.variant))
    /\ LET t == EscTiers(esc.variant)[esc.next] IN
         IF TierSucceeds(esc.out[t])
         THEN esc' = [esc EXCEPT !.tried = Append(@, t), !.pc = "returned",
                                 !.ret = [out |-> esc.out[t], tier |-> t]]
         ELSE esc' = [esc EXCEPT !.tried = Append(@, t), !.next = @ + 1]
    /\ UNCHANGED <<managerVars, wbuf, http, net, adb, probe, pipe>>

\* return None, 'all-failed', 'All root forms failed'
EscAllFailed ==
    /\ esc.pc = "call"
    /\ esc.next > Len(EscTiers(esc.variant))
    /\ esc' = [esc EXCEPT !.pc = "returned", !.ret = [out |-> "None", tier |-> "all-failed"]]
    /\ UNCHANGED <<managerVars, wbuf, http, net, adb, probe, pipe>>

(* ---- test_adb_connection, command by command ------------------------------------ *)
ProbeResult(connected, unauthorized) ==
    [connected |-> connected, unauthorized |-> unauthorized]
ProbeIdle == [pc |-> "idle", ip |-> "a1", issued |-> <<>>,
              ret |-> ProbeResult(FALSE, FALSE)]

\* test_adb_connection(ip) is called
ProbeCall(ip) ==
    /\ probe.pc \in {"idle", "returned", "answered"}
    /\ probe' = [pc |-> "ping", ip |-> ip, issued |-> <<>>,
                 ret |-> ProbeResult(FALSE, FALSE)]
    /\ UNCHANGED <<managerVars, wbuf, http, net, adb, esc, pipe>>

\* a probe that goes on to adb connect whatever ping returned
ProbePing_NoShortCircuit ==
    /\ probe.pc = "ping"
    /\ probe' = [probe EXCEPT !.issued = Append(@, "ping"), !.pc = "connect"]
    /\ UNCHANGED <<managerVars, wbuf, http, net, adb, esc, pipe>>

\* ping -c 1 -W 3: a return code other than 0 (or the 5 s timeout of
\* subprocess.run, caught by the except clause) returns (False, ..., False)
ProbePing ==
    /\ probe.pc = "ping"
    /\ IF net[probe.ip].ping
       THEN probe' = [probe EXCEPT !.issued = Append(@, "ping"), !.pc = "connect"]
       ELSE probe' = [probe EXCEPT !.issued = Append(@, "ping"), !.pc = "returned",
                                   !.ret = ProbeResult(FALSE, FALSE)]
    /\ UNCHANGED <<managerVars, wbuf, http, net, adb, esc, pipe>>

\* adb connect ip: without return code 0 and 'connected' in its output the
\* function returns (False, ..., False)
ProbeConnect ==
    /\ probe.pc = "connect"
    /\ IF net[probe.ip].connect
       THEN probe' = [probe EXCEPT !.issued = Append(@, "adb connect"), !.pc = "devices"]
       ELSE probe' = [probe EXCEPT !.issued = Append(@, "adb connect"), !.pc = "returned",
                                   !.ret = ProbeResult(FALSE, FALSE)]
    /\ UNCHANGED <<managerVars, wbuf, http, net, adb, esc, pipe>>

\* adb devices: the first line holding the address decides
ProbeDevices ==
    /\ probe.pc = "devices"
    /\ LET e == net[probe.ip] IN
       probe' = [probe EXCEPT
                   !.issued = Append(@, "adb devices"), !.pc = "returned",
                   !.ret = IF e.devices_ok /\ e.line = "unauthorized"
                           THEN ProbeResult(FALSE, TRUE)
                           ELSE IF e.devices_ok /\ e.line = "device"
                           THEN ProbeResult(TRUE, FALSE)
                           ELSE ProbeResult(FALSE, FALSE)]
    /\ UNCHANGED <<managerVars, wbuf, http, net, adb, esc, pipe>>

\* the tuple test_adb_connection returns: (connected, command_output, unauthorized)
ReturnedTuple(r) == <<r.connected, "command_output", r.unauthorized>>

\* handle_test_connection once test_adb_connection has returned:
\* 'connected, command_output = ...' takes a tuple of two values, any other
\* length raises ValueError, which the handler answers with send_error(500)
HandleTestConnection ==
    /\ probe.pc = "returned"
    /\ LET result == ReturnedTuple(probe.ret) IN
         http' = IF Len(result) = 2
                 THEN [req |-> <<"test-connection", probe.ip>>, before |-> <<>>, code |-> 200,
                       body |-> [status |-> "success", connected |-> result[1],
                                 commandOutput |-> result[2]]]
                 ELSE [req |-> <<"test-connection", probe.ip>>, before |-> <<>>, code |-> 500,
                       body |-> [status |-> "none"]]
    /\ probe' = [probe EXCEPT !.pc = "answered"]
    /\ UNCHANGED <<managerVars, wbuf, net, adb, esc, pipe>>

(* ---- extract_sqlite_data_from_device and run_getsql ------------------------------ *)
possible_paths ==
    << "/data/data/com.bca.bcatrack/cache/cache/data/sql.db",
       "/data/data/com.bca.bcatrack/cache/data/sql.db",
       "/data/data/com.bca.bcatrack/files/sql.db",
       "/data/data/com.bca.bcatrack/databases/sql.db",
       "/sdcard/sql.db" >>
PathIdx == 1..Len(possible_paths)
\* dst = '/sdcard/sql.db', where the cp puts the file
dst == "/sdcard/sql.db"

\* a tier list that leaves out su 0
root_methods_NoSu0 == <<"None", "suc">>
\* for root_method in [None, 'su0', 'suc']
root_methods == <<"None", "su0", "suc">>
\* a staging that goes through the tier list only
copy_methods_FixedOnly(used_root) == root_methods
\* for root_method in [used_root, None, 'su0', 'suc']
copy_methods(used_root) == <<used_root>> \o root_methods

\* what run_adb returns for an ls -l: None, an empty string, an output holding
\* 'No such file' or 'Permission denied', or a listing of the file
LsOutcomes == {"None", "empty", "No such file", "Permission denied", "listing"}
\* out and 'No such file' not in out_str and 'Permission denied' not in out_str
LsConfirms(out) == out = "listing"

NoValue == [result |-> "none", success |-> FALSE]
Success == [result |-> "SUCCESS", success |-> TRUE]
AdbNotAvailable == [result |-> "ADB not available", success |-> FALSE]
NoDevice == [result |-> "No ADB device connected", success |-> FALSE]
NotFound == [result |-> "Database not found or not accessible on any known path",
             success |-> FALSE]
ExtractionError == [result |-> "Extraction error", success |-> FALSE]
\* run_getsql: return {'success': False, 'error': str(e)}
RunError == [result |-> "error", success |-> FALSE]

\* the calls of extract_sqlite_data_from_device an entry of a debug list can
\* come from, and the list built from the text of a caught exception
TraceOrigins == {"this", "earlier", "exception"}
\* debug_log = []
EmptyLog == {}

\* no run in progress; local: LOCAL_DB_PATH exists; copies: the methods the
\* cp of the current candidate was run with; last_run, last_stats: the run
\* has set self.last_run, update_last_stats has written the counts;
\* debug_log: the origins of the entries of the local list debug_log; debug:
\* those of the 'debug' value of the dictionary last returned; transferred:
\* an adb pull of this run has written LOCAL_DB_PATH
PipeIdle(local) ==
    [pc |-> "idle", idx |-> 1, tier |-> 1, attempt |-> 1, used_root |-> "None",
     copy_success |-> FALSE, local |-> local,
     probed |-> {}, confirmed |-> {}, staged |-> {}, stageFailed |-> {},
     stagedCopy |-> FALSE, pulledStaged |-> FALSE, pulledDirect |-> {},
     removed |-> FALSE, result |-> NoValue, output |-> NoValue, escaped |-> FALSE,
     copies |-> <<>>, last_run |-> FALSE, last_stats |-> FALSE,
     debug_log |-> EmptyLog, debug |-> EmptyLog, transferred |-> FALSE]

\* positions inside the try block of extract_sqlite_data_from_device
InTry == {"version", "device", "ls", "cp", "pull", "cleanup", "direct"}

\* debug_log.append(...)
Log(p) == [p EXCEPT !.debug_log = @ \cup {"this"}]
\* extract_sqlite_data_from_device returns res to run_getsql:
\* return {"result": ..., "success": ..., "debug": debug_log}
Finish(p, res) == [p EXCEPT !.pc = "post", !.result = res, !.debug = p.debug_log]
\* a loop over the candidates that tries the same candidate again
NextCandidate_SamePath(p) ==
    [p EXCEPT !.pc = "ls", !.tier = 1, !.attempt = 1, !.copy_success = FALSE,
              !.copies = <<>>]
\* the end of one iteration of 'for db_path in possible_paths' without a
\* local file: the next candidate, or the return after the loop
NextCandidate(p) ==
    IF p.idx < Len(possible_paths)
    THEN [p EXCEPT !.pc = "ls", !.idx = @ + 1, !.tier = 1, !.attempt = 1,
                   !.copy_success = FALSE, !.copies = <<>>]
    ELSE Finish(p, NotFound)

\* run_getsql is called (menu, webhook or loop): the run starts afresh, the
\* local file is what earlier runs left
RunGetsqlCall ==
    /\ pipe.pc \in {"idle", "done"}
    /\ pipe' = [PipeIdle(pipe.local) EXCEPT !.pc = "version"]
    /\ UNCHANGED <<managerVars, wbuf, http, net, adb, esc, probe>>

\* if not run_adb('adb version'): return "ADB not available"
PipeVersion ==
    /\ pipe.pc = "version"
    /\ \E ok \in BOOLEAN :
         pipe' = IF ok THEN [pipe EXCEPT !.pc = "device"] ELSE Finish(Log(pipe), AdbNotAvailable)
    /\ UNCHANGED <<managerVars, wbuf, http, net, adb, esc, probe>>

\* device = get_connected_device(); if not device: return "No ADB device connected"
PipeDevice ==
    /\ pipe.pc = "device"
    /\ \E dev \in BOOLEAN :
         pipe' = IF dev THEN [pipe EXCEPT !.pc = "ls"] ELSE Finish(Log(pipe), NoDevice)
    /\ UNCHANGED <<managerVars, wbuf, http, net, adb, esc, probe>>

\* a probing step that stages a candidate no tier has confirmed
PipeLs_StageUnconfirmed ==
    /\ pipe.pc = "ls"
    /\ \E out \in LsOutcomes :
         LET p == Log([pipe EXCEPT !.probed = @ \cup {<<pipe.idx, root_methods[pipe.tier]>>}]) IN
         pipe' = IF LsConfirms(out)
                 THEN [p EXCEPT !.confirmed = @ \cup {pipe.idx},
                                !.used_root = root_methods[pipe.tier], !.pc = "cp"]
                 ELSE IF pipe.tier < Len(root_methods)
                 THEN [p EXCEPT !.tier = @ + 1]
                 ELSE [p EXCEPT !.pc = "cp"]
    /\ UNCHANGED <<managerVars, wbuf, http, net, adb, esc, probe>>

\* one ls -l of the candidate with the next root method: found: used_root is
\* set and staging begins; otherwise the next method, and after the last
\* method 'continue' with the next candidate
PipeLs ==
    /\ pipe.pc = "ls"
    /\ \E out \in LsOutcomes :
         LET p == Log([pipe EXCEPT !.probed = @ \cup {<<pipe.idx, root_methods[pipe.tier]>>}]) IN
         pipe' = IF LsConfirms(out)
                 THEN [p EXCEPT !.confirmed = @ \cup {pipe.idx},
                                !.used_root = root_methods[pipe.tier], !.pc = "cp"]
                 ELSE IF pipe.tier < Len(root_methods)
                 THEN [p EXCEPT !.tier = @ + 1]
                 ELSE NextCandidate(p)
    /\ UNCHANGED <<managerVars, wbuf, http, net, adb, esc, probe>>

\* one cp of the candidate to /sdcard/sql.db with the next copy method, then
\* ls -l /sdcard/sql.db: a listing sets copy_success; after the last method
\* without one the direct pull follows
PipeCopy ==
    /\ pipe.pc = "cp"
    /\ \E check_out \in LsOutcomes :
         LET p == Log([pipe EXCEPT !.staged = @ \cup {pipe.idx},
                               !.copies = Append(@, copy_methods(pipe.used_root)[pipe.attempt])]) IN
         pipe' = IF LsConfirms(check_out)
                 THEN [p EXCEPT !.copy_success = TRUE, !.stagedCopy = TRUE, !.pc = "pull"]
                 ELSE IF pipe.attempt < Len(copy_methods(pipe.used_root))
                 THEN [p EXCEPT !.attempt = @ + 1]
                 ELSE [p EXCEPT !.stageFailed = @ \cup {pipe.idx}, !.pc = "direct"]
    /\ UNCHANGED <<managerVars, wbuf, http, net, adb, esc, probe>>

\* adb pull /sdcard/sql.db LOCAL_DB_PATH; if os.path.exists(LOCAL_DB_PATH)
PipePullStaged ==
    /\ pipe.pc = "pull"
    /\ \E got \in BOOLEAN :
         LET p == Log([pipe EXCEPT !.pulledStaged = TRUE, !.local = @ \/ got,
                                   !.transferred = @ \/ got]) IN
         pipe' = IF p.local THEN [p EXCEPT !.pc = "cleanup"] ELSE [p EXCEPT !.pc = "direct"]
    /\ UNCHANGED <<managerVars, wbuf, http, net, adb, esc, probe>>

\* adb shell rm /sdcard/sql.db, its result unused; return SUCCESS
PipeCleanup ==
    /\ pipe.pc = "cleanup"
    /\ pipe' = Finish(Log([pipe EXCEPT !.removed = TRUE]), Success)
    /\ UNCHANGED <<managerVars, wbuf, http, net, adb, esc, probe>>

\* adb pull db_path LOCAL_DB_PATH; if os.path.exists(LOCAL_DB_PATH): return
\* SUCCESS, else the loop goes on
PipePullDirect ==
    /\ pipe.pc = "direct"
    /\ \E got \in BOOLEAN :
         LET p == Log([pipe EXCEPT !.pulledDirect = @ \cup {pipe.idx}, !.local = @ \/ got,
                                   !.transferred = @ \/ got]) IN
         pipe' = IF p.local THEN Finish(p, Success) ELSE NextCandidate(p)
    /\ UNCHANGED <<managerVars, wbuf, http, net, adb, esc, probe>>

\* an unexpected error is raised by a statement of the try block
PipeRaise ==
    /\ pipe.pc \in InTry
    /\ pipe' = [pipe EXCEPT !.pc = "except"]
    /\ UNCHANGED <<managerVars, wbuf, http, net, adb, esc, probe>>

\* an extraction without the except clause: the error leaves the function
ExtractExcept_Propagates ==
    /\ pipe.pc = "except"
    /\ pipe' = [pipe EXCEPT !.pc = "rg_except", !.escaped = TRUE]
    /\ UNCHANGED <<managerVars, wbuf, http, net, adb, esc, probe>>

\* except Exception as e: return {"result": f"Extraction error: ...",
\* "success": False, "debug": [str(e)]}
ExtractExcept ==
    /\ pipe.pc = "except"
    /\ pipe' = [Finish(pipe, ExtractionError) EXCEPT !.debug = {"exception"}]
    /\ UNCHANGED <<managerVars, wbuf, http, net, adb, esc, probe>>

\* run_getsql builds output from the result.  if output['success']: a message
\* is printed, self.last_run is set and update_last_stats() runs, which writes
\* the counts and saves the config or absorbs its own error; an error raised
\* by the print or at the entry of update_last_stats reaches the except
\* clause.  Otherwise only the failure is printed.  output['debug'] is
\* result.get("debug") in both cases.
RunGetsqlPost ==
    /\ pipe.pc = "post"
    /\ \E raises \in BOOLEAN, set \in BOOLEAN, stats \in BOOLEAN :
         pipe' = IF ~pipe.result.success
                 THEN [pipe EXCEPT !.pc = "done", !.output = pipe.result]
                 ELSE IF raises
                 THEN [pipe EXCEPT !.pc = "rg_except", !.last_run = set]
                 ELSE [pipe EXCEPT !.pc = "done", !.output = pipe.result,
                                   !.last_run = TRUE, !.last_stats = stats]
    /\ UNCHANGED <<managerVars, wbuf, http, net, adb, esc, probe>>

\* except Exception as e: return {'success': False, 'error': str(e)}, a
\* dictionary without a 'debug' entry
RunGetsqlExcept ==
    /\ pipe.pc = "rg_except"
    /\ pipe' = [pipe EXCEPT !.pc = "done", !.output = RunError, !.debug = EmptyLog]
    /\ UNCHANGED <<managerVars, wbuf, http, net, adb, esc, probe>>

(* ---- initial state: after BTTAutoManager.__init__ -------------------------- *)
Init ==
    /\ \E en \in BOOLEAN, ips \in {<<>>, <<[ip |-> "a1", name |-> "Van1"]>>} :
          config = [auto_enabled |-> en, interval_minutes |-> DefaultInterval,
                    adb_ips |-> ips, preferred_device |-> NoPreferred]
    /\ disk = config
    /\ auto_enabled = config.auto_enabled
    /\ running = FALSE
    /\ auto_thread = NoThread
    /\ next_update_time = NoTime
    /\ mode \in {"interactive", "daemon"}
    /\ pc = [t \in Callers |-> IF t = "main" THEN "boot" ELSE "idle"]
    /\ ret = NoResult
    /\ loopPc = [l \in Loops |-> "dead"]
    /\ net \in [Addrs -> NetStates]
    /\ lastCtl = "none"
    /\ adb = AdbIdle
    /\ esc = EscIdle
    /\ probe = ProbeIdle
    /\ pipe = PipeIdle(FALSE)
    /\ wbuf = NoBuffers
    /\ http = NoRequest

(* ---- start_auto_update ------------------------------------------------------ *)
\* the call of start_auto_update by thread t
StartCall(t) ==
    /\ pc' = [pc EXCEPT ![t] = "start_check"]
    /\ Request(t)
    /\ lastCtl' = "none"
    /\ UNCHANGED <<toolVars, schedVars, mode, loopPc, net>>

\* a start that does not look at self.running
StartCheck_NoGuard(t) ==
    /\ pc[t] = "start_check"
    /\ pc' = [pc EXCEPT ![t] = "start_set"]
    /\ UNCHANGED <<toolVars, schedVars, mode, ret, loopPc, net, lastCtl>>

\* if self.running: return
StartCheck(t) ==
    /\ pc[t] = "start_check"
    /\ IF running
       THEN /\ pc' = [pc EXCEPT ![t] = "idle"]
            /\ Return(t, config)
            /\ lastCtl' = "skipped"
       ELSE /\ pc' = [pc EXCEPT ![t] = "start_set"]
            /\ UNCHANGED <<ret, lastCtl>>
    /\ UNCHANGED <<toolVars, schedVars, mode, loopPc, net>>

\* self.running = True; config["auto_enabled"] = True; save_config();
\* self.auto_thread = threading.Thread(target=self.auto_update_loop); start()
StartSet(t) ==
    /\ pc[t] = "start_set"
    /\ FreeSlots # {}
    /\ running' = TRUE
    /\ config' = [config EXCEPT !.auto_enabled = TRUE]
    /\ auto_enabled' = TRUE
    /\ disk' = save_config(config')
    /\ LET l == CHOOSE x \in FreeSlots : \A y \in FreeSlots : x <= y IN
          /\ auto_thread' = l
          /\ loopPc' = [loopPc EXCEPT ![l] = "top"]
    /\ pc' = [pc EXCEPT ![t] = "idle"]
    /\ Return(t, config')
    /\ UNCHANGED <<toolVars, next_update_time, mode, net, lastCtl>>

(* ---- stop_auto_update ------------------------------------------------------- *)
\* the call: self.running = False; config["auto_enabled"] = False; save_config()
StopSet(t) ==
    /\ running' = FALSE
    /\ config' = [config EXCEPT !.auto_enabled = FALSE]
    /\ auto_enabled' = FALSE
    /\ disk' = save_config(config')
    /\ pc' = [pc EXCEPT ![t] = "stop_join"]
    /\ Request(t)
    /\ lastCtl' = "none"
    /\ UNCHANGED <<toolVars, auto_thread, next_update_time, mode, loopPc, net>>

\* if auto_thread and auto_thread.is_alive(): auto_thread.join(timeout=5)
\* self.next_update_time = None
\* The join ends when the thread has ended, or after 5 seconds while the
\* thread is blocked in a sleep or in an external command.
StopJoin(t) ==
    /\ pc[t] = "stop_join"
    /\ \/ auto_thread = NoThread
       \/ auto_thread # NoThread /\ ~Alive(auto_thread)
       \/ auto_thread # NoThread /\ Blocked(auto_thread)
    /\ next_update_time' = NoTime
    /\ pc' = [pc EXCEPT ![t] = "idle"]
    /\ Return(t, config)
    /\ lastCtl' = IF \E u \in Callers : InStart(u) THEN "none" ELSE "stopped"
    /\ UNCHANGED <<toolVars, config, disk, auto_enabled, running, auto_thread, mode, loopPc, net>>

(* ---- main(): after the manager is built and the webhook server started ------ *)
\* non-interactive: if config auto_enabled then start_auto_update();
\* interactive: show_menu()
Boot ==
    /\ pc["main"] = "boot"
    /\ IF mode = "daemon" /\ config.auto_enabled
       THEN StartCall("main")
       ELSE /\ pc' = [pc EXCEPT !["main"] = "idle"]
            /\ UNCHANGED <<toolVars, schedVars, mode, ret, loopPc, net, lastCtl>>

\* the terminal thread is at the menu prompt
AtMenu == pc["main"] = "idle" /\ mode = "interactive"
\* thread t is free to take a request
Ready(t) == IF t = "main" THEN AtMenu ELSE pc[t] = "idle"

\* menu option 1: toggle_auto_update
toggle_auto_update ==
    /\ AtMenu
    /\ IF config.auto_enabled THEN StopSet("main") ELSE StartCall("main")

(* ---- toggle_auto_update_webhook ---------------------------------------------- *)
\* a webhook toggle that starts without probing, as the menu toggle does
toggle_webhook_Ungated ==
    /\ pc["web"] = "idle"
    /\ IF config.auto_enabled THEN StopSet("web") ELSE StartCall("web")

\* current_state true: stop_auto_update; otherwise every registered device
\* is probed: none connected: the rejection is returned, else start_auto_update
toggle_auto_update_webhook ==
    /\ pc["web"] = "idle"
    /\ IF config.auto_enabled
       THEN StopSet("web")
       ELSE IF ~any_connected
            THEN /\ ret' = Rejection
                 /\ UNCHANGED <<toolVars, schedVars, mode, pc, loopPc, net, lastCtl>>
            ELSE StartCall("web")

\* handle_control, action 'toggle_auto': the response built from the value
\* toggle_auto_update_webhook returned (result.get('autoEnabled', False))
handle_control_toggle(result) ==
    [code |-> 200,
     body |-> [status |-> "success", message |-> "Auto-update toggled",
               autoEnabled |-> result.autoEnabled]]

(* ---- serve_status: GET /status ------------------------------------------------ *)
\* if no registered device is connected, auto_enabled is forced to False
serve_status ==
    /\ pc["web"] = "idle"
    /\ IF ~any_connected
       THEN /\ auto_enabled' = FALSE
            /\ config' = [config EXCEPT !.auto_enabled = FALSE]
            /\ disk' = save_config(config')
       ELSE UNCHANGED <<auto_enabled, config, disk>>
    /\ Request("web")
    /\ UNCHANGED <<toolVars, running, auto_thread, next_update_time, mode, pc, loopPc, net, lastCtl>>

(* ---- set_interval --------------------------------------------------------------- *)
set_interval(t, minutes) ==
    /\ Ready(t)
    /\ config' = [config EXCEPT !.interval_minutes = ClampInterval(minutes)]
    /\ disk' = save_config(config')
    /\ Request(t)
    /\ UNCHANGED <<toolVars, auto_enabled, running, auto_thread, next_update_time, mode,
                   pc, loopPc, net, lastCtl>>

(* ---- run_getsql: menu option 3 and action run_extraction ------------------------ *)
\* the caller enters extract_sqlite_data_from_device()
RunGetsqlBegin(t) ==
    /\ Ready(t)
    /\ pc' = [pc EXCEPT ![t] = "run"]
    /\ Request(t)
    /\ UNCHANGED <<toolVars, schedVars, mode, loopPc, net, lastCtl>>

\* the pipeline returns; on success update_last_stats() saves the config
RunGetsqlEnd(t) ==
    /\ pc[t] = "run"
    /\ \E ok \in BOOLEAN : disk' = IF ok THEN save_config(config) ELSE disk
    /\ pc' = [pc EXCEPT ![t] = "idle"]
    /\ UNCHANGED <<toolVars, config, auto_enabled, running, auto_thread, next_update_time,
                   mode, ret, loopPc, net, lastCtl>>

(* ---- auto_update_loop ------------------------------------------------------------ *)
\* a loop that only tests self.running
LoopTop_IgnoresEnabled(l) ==
    /\ loopPc[l] = "top"
    /\ loopPc' = [loopPc EXCEPT ![l] = IF running THEN "probe" ELSE "exit"]
    /\ UNCHANGED <<toolVars, schedVars, mode, pc, ret, net, lastCtl>>

\* while self.running: ... if not auto_enabled: break
LoopTop(l) ==
    /\ loopPc[l] = "top"
    /\ loopPc' = [loopPc EXCEPT ![l] =
                     IF running /\ config.auto_enabled THEN "probe" ELSE "exit"]
    /\ UNCHANGED <<toolVars, schedVars, mode, pc, ret, net, lastCtl>>

\* if not get_connected_device(): connected = try_connect_adb_ips();
\* not connected: time.sleep(60); continue.  Otherwise run_getsql() is entered.
LoopProbe(l) ==
    /\ loopPc[l] = "probe"
    /\ loopPc' = [loopPc EXCEPT ![l] =
                     IF get_connected_device \/ try_connect_adb_ips
                     THEN "run" ELSE "sleep"]
    /\ UNCHANGED <<toolVars, schedVars, mode, pc, ret, net, lastCtl>>

\* run_getsql() returns to the loop (on success update_last_stats() saves the
\* config); self.next_update_time = now + interval; time.sleep(interval_seconds)
LoopRunEnd(l) ==
    /\ loopPc[l] = "run"
    /\ \E ok \in BOOLEAN : disk' = IF ok THEN save_config(config) ELSE disk
    /\ next_update_time' = config.interval_minutes
    /\ loopPc' = [loopPc EXCEPT ![l] = "sleep"]
    /\ UNCHANGED <<toolVars, config, auto_enabled, running, auto_thread,
                   mode, pc, ret, net, lastCtl>>

\* a loop that an error raised in its body ends
LoopRaise_Exits(l) ==
    /\ loopPc[l] \in {"probe", "run"}
    /\ loopPc' = [loopPc EXCEPT ![l] = "exit"]
    /\ UNCHANGED <<toolVars, schedVars, mode, pc, ret, net, lastCtl>>

\* an error is raised by a statement of the try block after the test of
\* auto_enabled: except Exception: ...; time.sleep(60)
LoopRaise(l) ==
    /\ loopPc[l] \in {"probe", "run"}
    /\ loopPc' = [loopPc EXCEPT ![l] = "backoff"]
    /\ UNCHANGED <<toolVars, schedVars, mode, pc, ret, net, lastCtl>>

\* a slice of time.sleep() elapses and the call goes on sleeping: no flag
\* is read inside time.sleep()
LoopSleepTick(l) ==
    /\ loopPc[l] \in {"sleep", "backoff"}
    /\ loopPc' = [loopPc EXCEPT ![l] = "sleeping"]
    /\ UNCHANGED <<toolVars, schedVars, mode, pc, ret, net, lastCtl>>

\* time.sleep() returns; next iteration
LoopWake(l) ==
    /\ loopPc[l] = "sleeping"
    /\ loopPc' = [loopPc EXCEPT ![l] = "top"]
    /\ UNCHANGED <<toolVars, schedVars, mode, pc, ret, net, lastCtl>>

\* after the while loop: self.running = False, and the thread ends
LoopExit(l) ==
    /\ loopPc[l] = "exit"
    /\ running' = FALSE
    /\ loopPc' = [loopPc EXCEPT ![l] = "dead"]
    /\ UNCHANGED <<toolVars, config, disk, auto_enabled, auto_thread, next_update_time,
                   mode, pc, ret, net, lastCtl>>

(* ---- the devices come and go ------------------------------------------------------ *)
EnvChange ==
    /\ \E a \in Addrs, s \in NetStates :
          /\ net[a] # s
          /\ net' = [net EXCEPT ![a] = s]
    /\ UNCHANGED <<toolVars, schedVars, mode, pc, ret, loopPc, lastCtl>>

\* the steps of the scheduler: its control requests and its loop threads
SchedulerStep ==
    \/ Boot
    \/ toggle_auto_update
    \/ toggle_auto_update_webhook
    \/ serve_status
    \/ \E t \in Callers : StartCheck(t)
    \/ \E t \in Callers : StartSet(t)
    \/ \E t \in Callers : StopJoin(t)
    \/ \E l \in Loops : LoopTop(l)
    \/ \E l \in Loops : LoopProbe(l)
    \/ \E l \in Loops : LoopRunEnd(l)
    \/ \E l \in Loops : LoopSleepTick(l)
    \/ \E l \in Loops : LoopWake(l)
    \/ \E l \in Loops : LoopExit(l)

\* the scheduler with run-now requests, while the devices come and go
Next ==
    \/ SchedulerStep
    \/ \E t \in Callers : RunGetsqlBegin(t)
    \/ \E t \in Callers : RunGetsqlEnd(t)
    \/ EnvChange

Spec == Init /\ [][Next]_vars

\* the scheduler driven from the terminal, with status and set_interval
\* requests of both threads, the devices staying as they are
NextInterval ==
    \/ \E t \in Callers, m \in IntervalInputs : set_interval(t, m)
    \/ Boot
    \/ toggle_auto_update
    \/ serve_status
    \/ StartCheck("main")
    \/ StartSet("main")
    \/ StopJoin("main")
    \/ \E l \in Loops : LoopTop(l)
    \/ \E l \in Loops : LoopProbe(l)
    \/ \E l \in Loops : LoopRunEnd(l)
    \/ \E l \in Loops : LoopSleepTick(l)
    \/ \E l \in Loops : LoopWake(l)
    \/ \E l \in Loops : LoopExit(l)

SpecInterval == Init /\ [][NextInterval]_vars

\* the scheduler driven from the terminal only: no webhook request arrives
NextTerminal ==
    \/ Boot
    \/ toggle_auto_update
    \/ StartCheck("main")
    \/ StartSet("main")
    \/ StopJoin("main")
    \/ RunGetsqlBegin("main")
    \/ RunGetsqlEnd("main")
    \/ \E l \in Loops : LoopTop(l)
    \/ \E l \in Loops : LoopProbe(l)
    \/ \E l \in Loops : LoopRunEnd(l)
    \/ \E l \in Loops : LoopSleepTick(l)
    \/ \E l \in Loops : LoopWake(l)
    \/ \E l \in Loops : LoopExit(l)
    \/ EnvChange

SpecTerminal == Init /\ [][NextTerminal]_vars

\* the loop threads on their own account: started and stopped from the
\* terminal, status requests arriving, errors raised inside the loop body; the
\* devices stay as they are
NextLoop ==
    \/ Boot
    \/ toggle_auto_update
    \/ serve_status
    \/ StartCheck("main")
    \/ StartSet("main")
    \/ StopJoin("main")
    \/ \E l \in Loops : LoopTop(l)
    \/ \E l \in Loops : LoopProbe(l)
    \/ \E l \in Loops : LoopRunEnd(l)
    \/ \E l \in Loops : LoopRaise(l)
    \/ \E l \in Loops : LoopSleepTick(l)
    \/ \E l \in Loops : LoopWake(l)
    \/ \E l \in Loops : LoopExit(l)

SpecLoop == Init /\ [][NextLoop]_vars

\* the steps loop thread l takes by itself
LoopStep(l) ==
    \/ LoopTop(l)
    \/ LoopProbe(l)
    \/ LoopRunEnd(l)
    \/ LoopSleepTick(l)
    \/ LoopWake(l)
    \/ LoopExit(l)
\* a started thread is scheduled again and again, and every command, run and
\* sleep it waits for comes to an end
SpecLoopFair == SpecLoop /\ \A l \in Loops : WF_vars(LoopStep(l))

(* ---- the device registry: POST /webhook/adb-ips ------------------------------------- *)
\* the addresses and the names the registry requests carry
RegAddrs == {"a1", "a2", "a3"}
RegNames == {"Van1", "Van2"}
\* name=None, or an empty name
NoName == ""
\* an entry as add_adb_ip writes it: {'ip': ip, 'name': device_name}
Entry(ip, name) == [ip |-> ip, name |-> name]
\* an entry of the old format: the address as a bare string
Legacy(ip) == [ip |-> ip]
\* isinstance(device, dict)
IsDict(device) == "name" \in DOMAIN device
\* f'Device {n}'
DeviceName(n) == <<"Device 1", "Device 2", "Device 3">>[n]

RegEntries == {Entry(a, n) : a \in RegAddrs, n \in RegNames} \cup {Legacy(a) : a \in RegAddrs}
\* the lists config['adb_ips'] can hold: no address twice, in either format
RegistryStates ==
    {r \in UNION {[1..k -> RegEntries] : k \in 0..Cardinality(RegAddrs)} :
        \A i, j \in 1..Len(r) : r[i].ip = r[j].ip => i = j}

\* [device.get('ip', device) for device in adb_ips]: a str has no get
AddRaises(reg) == \E i \in 1..Len(reg) : ~IsDict(reg[i])
RegisteredIps(reg) == {reg[i].ip : i \in 1..Len(reg)}

\* an add_adb_ip that appends without looking for the address
add_adb_ip_NoCheck(reg, ip, name) ==
    Append(reg, Entry(ip, IF name # NoName THEN name
                          ELSE IF Len(reg) < 3 THEN DeviceName(Len(reg) + 1)
                          ELSE DeviceName(3)))
\* add_adb_ip(ip, name): nothing is done for an address the list holds
add_adb_ip(reg, ip, name) ==
    IF ip \in RegisteredIps(reg) THEN reg
    ELSE Append(reg, Entry(ip, IF name # NoName THEN name ELSE DeviceName(Len(reg) + 1)))

\* remove_adb_ip(ip): the first entry of the address is popped
remove_adb_ip(reg, ip) ==
    IF ip \notin RegisteredIps(reg) THEN reg
    ELSE LET i == CHOOSE k \in 1..Len(reg) :
                      reg[k].ip = ip /\ \A j \in 1..(k - 1) : reg[j].ip # ip
         IN SubSeq(reg, 1, i - 1) \o SubSeq(reg, i + 1, Len(reg))

\* rename_adb_device(ip, name): the first entry of the address gets the name,
\* an entry of the old format becoming {'ip': device, 'name': name}
rename_adb_device(reg, ip, name) ==
    IF ip \notin RegisteredIps(reg) THEN reg
    ELSE LET i == CHOOSE k \in 1..Len(reg) :
                      reg[k].ip = ip /\ \A j \in 1..(k - 1) : reg[j].ip # ip
         IN [reg EXCEPT ![i] = Entry(ip, name)]

\* set_preferred_device: device.get('ip', device) is evaluated for the entries
\* up to the one of the address, and a str has no get
PreferredRaises(reg, ip) ==
    \E i \in 1..Len(reg) : ~IsDict(reg[i]) /\ \A j \in 1..(i - 1) : reg[j].ip # ip

\* get_adb_ips(): entries of the old format are shown as {'ip', 'name': 'Device n'}
get_adb_ips(reg) ==
    [i \in 1..Len(reg) |-> IF IsDict(reg[i]) THEN reg[i] ELSE Entry(reg[i].ip, DeviceName(i))]

\* what a registry request leaves alone
RegistryFrame ==
    UNCHANGED <<auto_enabled, running, auto_thread, next_update_time, mode, pc, ret,
                loopPc, lastCtl, net, adb, esc, probe, pipe, wbuf>>

\* handle_adb_ips, action 'add': add_adb_ip, then the answer 'Added IP'; an
\* error raised by add_adb_ip is answered with send_error(500)
HandleAdd(ip, name) ==
    /\ pc["web"] = "idle"
    /\ LET reg == config.adb_ips IN
       IF AddRaises(reg)
       THEN /\ http' = [req |-> <<"add", ip, name>>, before |-> reg, code |-> 500,
                        body |-> [status |-> "none"]]
            /\ UNCHANGED <<config, disk>>
       ELSE /\ config' = [config EXCEPT !.adb_ips = add_adb_ip(reg, ip, name)]
            /\ disk' = IF ip \in RegisteredIps(reg) THEN disk ELSE save_config(config')
            /\ http' = [req |-> <<"add", ip, name>>, before |-> reg, code |-> 200,
                        body |-> [status |-> "success"]]
    /\ RegistryFrame

\* handle_adb_ips, action 'remove': remove_adb_ip, then the answer 'Removed IP'
HandleRemove(ip) ==
    /\ pc["web"] = "idle"
    /\ LET reg == config.adb_ips IN
         /\ config' = [config EXCEPT !.adb_ips = remove_adb_ip(reg, ip)]
         /\ disk' = IF ip \in RegisteredIps(reg) THEN save_config(config') ELSE disk
         /\ http' = [req |-> <<"remove", ip>>, before |-> reg, code |-> 200,
                     body |-> [status |-> "success"]]
    /\ RegistryFrame

\* handle_adb_ips, action 'rename': rename_adb_device, then the answer
\* 'Renamed device'; without a name the answer is an error
HandleRename(ip, name) ==
    /\ pc["web"] = "idle"
    /\ LET reg == config.adb_ips IN
       IF name = NoName
       THEN /\ http' = [req |-> <<"rename", ip, name>>, before |-> reg, code |-> 200,
                        body |-> [status |-> "error"]]
            /\ UNCHANGED <<config, disk>>
       ELSE /\ config' = [config EXCEPT !.adb_ips = rename_adb_device(reg, ip, name)]
            /\ disk' = IF ip \in RegisteredIps(reg) THEN save_config(config') ELSE disk
            /\ http' = [req |-> <<"rename", ip, name>>, before |-> reg, code |-> 200,
                        body |-> [status |-> "success"]]
    /\ RegistryFrame

\* handle_control, action 'set_preferred_device': set_preferred_device looks
\* for the name of the address, then config['preferred_device'] = ip and
\* save_config(), found or not; an error raised by the search is answered
\* with send_error(500)
HandleSetPreferred(ip) ==
    /\ pc["web"] = "idle"
    /\ LET reg == config.adb_ips IN
       IF PreferredRaises(reg, ip)
       THEN /\ http' = [req |-> <<"set_preferred_device", ip>>, before |-> reg,
                        code |-> 500, body |-> [status |-> "none"]]
            /\ UNCHANGED <<config, disk>>
       ELSE /\ config' = [config EXCEPT !.preferred_device = ip]
            /\ disk' = save_config(config')
            /\ http' = [req |-> <<"set_preferred_device", ip>>, before |-> reg,
                        code |-> 200, body |-> [status |-> "success"]]
    /\ RegistryFrame

(* ---- save_config, write by write ------------------------------------------------------ *)
\* json.dump(config, f, indent=2) as a text: one token for a brace, a key or
\* a literal, and one token for each digit of the interval (the registry, which
\* stays empty here, is left out)
BoolStr(b) == IF b THEN "true" ELSE "false"
DigitStr(d) == <<"0", "1", "2", "3", "4", "5", "6", "7", "8", "9">>[d + 1]
RECURSIVE Digits(_)
Digits(n) == IF n < 10 THEN <<DigitStr(n)>> ELSE Append(Digits(n \div 10), DigitStr(n % 10))
Serialize(c) ==
    <<"{", "auto_enabled", BoolStr(c.auto_enabled), "interval_minutes">>
        \o Digits(c.interval_minutes) \o <<"}">>

\* the configs set_interval can leave in memory
SavedConfigs ==
    {[auto_enabled |-> e, interval_minutes |-> ClampInterval(m), adb_ips |-> <<>>,
      preferred_device |-> NoPreferred] :
        e \in BOOLEAN, m \in IntervalInputs \cup {DefaultInterval}}
\* json.load(f) does not raise
Parses(doc) == \E c \in SavedConfigs : Serialize(c) = doc
default_config ==
    [auto_enabled |-> FALSE, interval_minutes |-> DefaultInterval, adb_ips |-> <<>>,
     preferred_device |-> NoPreferred]
\* load_config(): the document, or default_config when json.load raises
load_config(doc) ==
    IF Parses(doc) THEN CHOOSE c \in SavedConfigs : Serialize(c) = doc ELSE default_config

\* a write of buf at offset 0 of a file: what lies beyond the end of buf stays
Overlay(file, buf) == buf \o SubSeq(file, Len(buf) + 1, Len(file))

\* what the steps of a save leave alone
SaveFrame ==
    UNCHANGED <<running, auto_thread, next_update_time, mode, ret, loopPc, lastCtl,
                net, adb, esc, probe, pipe, http>>

\* the positions of a thread inside save_config, by the operation that called
\* it (set_interval, start_auto_update, stop_auto_update), and the position
\* each step leads to; after the with block the caller goes on
AfterOpen ==
    [save_open |-> "save_dump", start_save_open |-> "start_save_dump",
     stop_save_open |-> "stop_save_dump"]
AfterDump ==
    [save_dump |-> "save_close", start_save_dump |-> "start_save_close",
     stop_save_dump |-> "stop_save_close"]
AfterClose ==
    [save_close |-> "idle", start_save_close |-> "start_thread",
     stop_save_close |-> "stop_join"]
InSave(t) == pc[t] \in (DOMAIN AfterOpen) \cup (DOMAIN AfterDump) \cup (DOMAIN AfterClose)
\* where the caller goes on when save_config returns from position p
AfterSave(p) ==
    IF p \in DOMAIN AfterOpen THEN AfterClose[AfterDump[AfterOpen[p]]]
    ELSE IF p \in DOMAIN AfterDump THEN AfterClose[AfterDump[p]]
    ELSE AfterClose[p]

\* set_interval up to the call of save_config: the clamp and the assignment
SetIntervalAssign(t, minutes) ==
    /\ Ready(t)
    /\ config' = [config EXCEPT !.interval_minutes = ClampInterval(minutes)]
    /\ pc' = [pc EXCEPT ![t] = "save_open"]
    /\ UNCHANGED <<disk, auto_enabled, wbuf>>
    /\ SaveFrame

\* open(CONFIG_FILE, 'w'): the file is truncated
SaveOpen(t) ==
    /\ pc[t] \in DOMAIN AfterOpen
    /\ disk' = <<>>
    /\ wbuf' = [wbuf EXCEPT ![t] = <<>>]
    /\ pc' = [pc EXCEPT ![t] = AfterOpen[pc[t]]]
    /\ UNCHANGED <<config, auto_enabled>>
    /\ SaveFrame

\* json.dump(config, f, indent=2): self.config as it is now goes to the buffer
\* of the file object
SaveDump(t) ==
    /\ pc[t] \in DOMAIN AfterDump
    /\ wbuf' = [wbuf EXCEPT ![t] = Serialize(config)]
    /\ pc' = [pc EXCEPT ![t] = AfterDump[pc[t]]]
    /\ UNCHANGED <<config, disk, auto_enabled>>
    /\ SaveFrame

\* the end of the with block: the buffer is written from offset 0 and the
\* file is closed
SaveClose(t) ==
    /\ pc[t] \in DOMAIN AfterClose
    /\ disk' = Overlay(disk, wbuf[t])
    /\ wbuf' = [wbuf EXCEPT ![t] = <<>>]
    /\ pc' = [pc EXCEPT ![t] = AfterClose[pc[t]]]
    /\ UNCHANGED <<config, auto_enabled>>
    /\ SaveFrame

\* what a failed write leaves in the file: open() raises and the document
\* stays; json.dump raises and the with block closes the file on the part
\* of the text already in the buffer; the write of the buffer at the close
\* raises after a part of it
FailedWrite(t) ==
    IF pc[t] \in DOMAIN AfterOpen THEN {disk}
    ELSE LET text == IF pc[t] \in DOMAIN AfterDump THEN Serialize(config) ELSE wbuf[t]
         IN {Overlay(disk, SubSeq(text, 1, k)) : k \in 0..(Len(text) - 1)}

\* a save_config whose error leaves the function and ends the operation
SaveRaise_Propagates(t) ==
    /\ InSave(t)
    /\ disk' \in FailedWrite(t)
    /\ wbuf' = [wbuf EXCEPT ![t] = <<>>]
    /\ pc' = [pc EXCEPT ![t] = "raised"]
    /\ UNCHANGED <<config, auto_enabled>>
    /\ SaveFrame

\* the rewrite fails: except Exception as e: console.print(...), and
\* save_config returns to its caller
SaveRaise(t) ==
    /\ InSave(t)
    /\ disk' \in FailedWrite(t)
    /\ wbuf' = [wbuf EXCEPT ![t] = <<>>]
    /\ pc' = [pc EXCEPT ![t] = AfterSave(pc[t])]
    /\ UNCHANGED <<config, auto_enabled>>
    /\ SaveFrame

\* start_auto_update up to the call of save_config: if self.running: return;
\* self.running = True; config["auto_enabled"] = True; self.auto_enabled = True.
\* The webhook toggle calls it only when a registered device is connected.
StartAssign(t) ==
    /\ Ready(t)
    /\ ~config.auto_enabled
    /\ t = "web" => any_connected
    /\ ~running
    /\ running' = TRUE
    /\ config' = [config EXCEPT !.auto_enabled = TRUE]
    /\ auto_enabled' = TRUE
    /\ pc' = [pc EXCEPT ![t] = "start_save_open"]
    /\ UNCHANGED <<disk, wbuf, auto_thread, next_update_time, mode, ret, loopPc, lastCtl,
                   net, adb, esc, probe, pipe, http>>

\* start_auto_update after save_config: the thread is created and started
StartThread(t) ==
    /\ pc[t] = "start_thread"
    /\ FreeSlots # {}
    /\ LET l == CHOOSE x \in FreeSlots : \A y \in FreeSlots : x <= y IN
          /\ auto_thread' = l
          /\ loopPc' = [loopPc EXCEPT ![l] = "top"]
    /\ pc' = [pc EXCEPT ![t] = "idle"]
    /\ UNCHANGED <<config, disk, auto_enabled, running, wbuf, next_update_time, mode, ret,
                   lastCtl, net, adb, esc, probe, pipe, http>>

\* stop_auto_update up to the call of save_config: self.running = False;
\* config["auto_enabled"] = False; self.auto_enabled = False
StopAssign(t) ==
    /\ Ready(t)
    /\ config.auto_enabled
    /\ running' = FALSE
    /\ config' = [config EXCEPT !.auto_enabled = FALSE]
    /\ auto_enabled' = FALSE
    /\ pc' = [pc EXCEPT ![t] = "stop_save_open"]
    /\ UNCHANGED <<disk, wbuf, auto_thread, next_update_time, mode, ret, loopPc, lastCtl,
                   net, adb, esc, probe, pipe, http>>

\* the process is killed and started again: __init__ loads the document
CrashRestart ==
    /\ config' = load_config(disk)
    /\ auto_enabled' = config'.auto_enabled
    /\ pc' = [t \in Callers |-> "idle"]
    /\ wbuf' = NoBuffers
    /\ UNCHANGED disk
    /\ SaveFrame

(* ---- the bridge functions on their own --------------------------------------------- *)
\* the manager at rest: nothing enabled, no thread in a request
ManagerIdle ==
    /\ config = [auto_enabled |-> FALSE, interval_minutes |-> DefaultInterval,
                 adb_ips |-> <<>>, preferred_device |-> NoPreferred]
    /\ disk = config
    /\ auto_enabled = FALSE
    /\ running = FALSE
    /\ auto_thread = NoThread
    /\ next_update_time = NoTime
    /\ mode = "interactive"
    /\ pc = [t \in Callers |-> "idle"]
    /\ ret = NoResult
    /\ loopPc = [l \in Loops |-> "dead"]
    /\ lastCtl = "none"

\* one call of run_adb, for every outcome of the subprocess
InitRunAdb ==
    /\ ManagerIdle
    /\ net = [a \in Addrs |-> Unreachable]
    /\ adb \in [pc : {"call"}, variant : RunAdbVariants, status : ProcStatus,
                stdout : Strings, ret : {None}, spawns : {0}, logged : {0}]
    /\ esc = EscIdle
    /\ probe = ProbeIdle
    /\ pipe = PipeIdle(FALSE)
    /\ wbuf = NoBuffers
    /\ http = NoRequest
NextRunAdb == RunAdb
SpecRunAdb == InitRunAdb /\ [][NextRunAdb]_vars

\* one call of run_adb_with_root, for every outcome of the three tiers
InitEscalator ==
    /\ ManagerIdle
    /\ net = [a \in Addrs |-> Unreachable]
    /\ adb = AdbIdle
    /\ esc \in [pc : {"call"}, variant : RunAdbVariants, out : [AllTiers -> TierResults],
                next : {1}, tried : {<<>>}, ret : {EscIdle.ret}]
    /\ probe = ProbeIdle
    /\ pipe = PipeIdle(FALSE)
    /\ wbuf = NoBuffers
    /\ http = NoRequest
NextEscalator == EscTry \/ EscAllFailed
SpecEscalator == InitEscalator /\ [][NextEscalator]_vars

\* calls of test_adb_connection, for every answer of the address
InitProbe ==
    /\ ManagerIdle
    /\ net \in [Addrs -> ProbeNetStates]
    /\ adb = AdbIdle
    /\ esc = EscIdle
    /\ probe = ProbeIdle
    /\ pipe = PipeIdle(FALSE)
    /\ wbuf = NoBuffers
    /\ http = NoRequest
NextProbe ==
    \/ \E ip \in Addrs : ProbeCall(ip)
    \/ ProbePing
    \/ ProbeConnect
    \/ ProbeDevices
    \/ HandleTestConnection
SpecProbe == InitProbe /\ [][NextProbe]_vars

\* runs of run_getsql one after the other, every command answering freely
InitPipeline ==
    /\ ManagerIdle
    /\ net = [a \in Addrs |-> Unreachable]
    /\ adb = AdbIdle
    /\ esc = EscIdle
    /\ probe = ProbeIdle
    /\ \E local \in BOOLEAN : pipe = PipeIdle(local)
    /\ wbuf = NoBuffers
    /\ http = NoRequest
NextPipeline ==
    \/ RunGetsqlCall
    \/ PipeVersion
    \/ PipeDevice
    \/ PipeLs
    \/ PipeCopy
    \/ PipePullStaged
    \/ PipeCleanup
    \/ PipePullDirect
    \/ PipeRaise
    \/ ExtractExcept
    \/ RunGetsqlPost
    \/ RunGetsqlExcept
SpecPipeline == InitPipeline /\ [][NextPipeline]_vars

\* requests to the registry, from every list config['adb_ips'] can hold
InitRegistry ==
    /\ \E r \in RegistryStates :
          config = [auto_enabled |-> FALSE, interval_minutes |-> DefaultInterval,
                    adb_ips |-> r, preferred_device |-> NoPreferred]
    /\ disk = config
    /\ auto_enabled = FALSE
    /\ running = FALSE
    /\ auto_thread = NoThread
    /\ next_update_time = NoTime
    /\ mode = "interactive"
    /\ pc = [t \in Callers |-> "idle"]
    /\ ret = NoResult
    /\ loopPc = [l \in Loops |-> "dead"]
    /\ lastCtl = "none"
    /\ net = [a \in Addrs |-> Unreachable]
    /\ adb = AdbIdle
    /\ esc = EscIdle
    /\ probe = ProbeIdle
    /\ pipe = PipeIdle(FALSE)
    /\ wbuf = NoBuffers
    /\ http = NoRequest
NextRegistry ==
    \/ \E ip \in RegAddrs, name \in RegNames \cup {NoName} : HandleAdd(ip, name)
    \/ \E ip \in RegAddrs : HandleRemove(ip)
    \/ \E ip \in RegAddrs, name \in RegNames \cup {NoName} : HandleRename(ip, name)
    \/ \E ip \in RegAddrs : HandleSetPreferred(ip)
SpecRegistry == InitRegistry /\ [][NextRegistry]_vars

\* set_interval requests of both control threads with save_config taken write
\* by write, the process being killed and started again at any moment
InitSave ==
    /\ config = default_config
    /\ disk = Serialize(config)
    /\ auto_enabled = config.auto_enabled
    /\ running = FALSE
    /\ auto_thread = NoThread
    /\ next_update_time = NoTime
    /\ mode = "interactive"
    /\ pc = [t \in Callers |-> "idle"]
    /\ ret = NoResult
    /\ loopPc = [l \in Loops |-> "dead"]
    /\ lastCtl = "none"
    /\ net = [a \in Addrs |-> Unreachable]
    /\ adb = AdbIdle
    /\ esc = EscIdle
    /\ probe = ProbeIdle
    /\ pipe = PipeIdle(FALSE)
    /\ wbuf = NoBuffers
    /\ http = NoRequest
NextSave ==
    \/ \E t \in Callers, m \in IntervalInputs : SetIntervalAssign(t, m)
    \/ \E t \in Callers : SaveOpen(t)
    \/ \E t \in Callers : SaveDump(t)
    \/ \E t \in Callers : SaveClose(t)
    \/ CrashRestart
SpecSave == InitSave /\ [][NextSave]_vars

\* start, stop and set_interval requests from the terminal and the loop
\* threads they start, every step of save_config being free to fail; no
\* device answers, so that the loops probe and sleep
NextSaveFail ==
    \/ \E m \in IntervalInputs : SetIntervalAssign("main", m)
    \/ StartAssign("main")
    \/ StartThread("main")
    \/ StopAssign("main")
    \/ StopJoin("main")
    \/ SaveOpen("main")
    \/ SaveDump("main")
    \/ SaveClose("main")
    \/ SaveRaise("main")
    \/ \E l \in Loops : LoopTop(l)
    \/ \E l \in Loops : LoopProbe(l)
    \/ \E l \in Loops : LoopSleepTick(l)
    \/ \E l \in Loops : LoopWake(l)
    \/ \E l \in Loops : LoopExit(l)
SpecSaveFail == InitSave /\ [][NextSaveFail]_vars

\* the probe taken command by command returns what test_adb_connection(ip)
\* computes from the answers of the address
ProbeMatchesOperator ==
    probe.pc = "returned"
        => <<probe.ret.connected, probe.ret.unauthorized>> = test_adb_connection(probe.ip)

TypeOK ==
    /\ config.auto_enabled \in BOOLEAN
    /\ config.interval_minutes \in MinInterval..MaxInterval
    /\ disk = config
    /\ auto_enabled = config.auto_enabled
    /\ running \in BOOLEAN
    /\ auto_thread \in {NoThread} \cup Loops
    /\ next_update_time \in {NoTime} \cup (MinInterval..MaxInterval)

(***************************************************************************)
(* The claims                                                              *)
(***************************************************************************)
\* address a answers the whole connectivity probe: ping, adb connect, and an
\* online line in adb devices
PassesProbe(a) == net[a].ping /\ net[a].connect /\ net[a].line = "device"
SomeRegisteredPasses ==
    \E i \in 1..Len(config.adb_ips) : PassesProbe(config.adb_ips[i].ip)
\* the loop threads inside the while loop
ActiveLoops == {l \in Loops : InLoop(l)}
\* the threads inside extract_sqlite_data_from_device()
RunsInFlight == Cardinality({t \in Callers : pc[t] = "run"})
                + Cardinality({l \in Loops : loopPc[l] = "run"})
Min(a, b) == IF a < b THEN a ELSE b
Max(a, b) == IF a > b THEN a ELSE b

C2_EnableOnlyWhenConnected ==
    [][(~config.auto_enabled /\ config'.auto_enabled) => SomeRegisteredPasses]_vars

\* C3: a start_auto_update call that finds the scheduler running returns at
\* once: it starts no thread and changes no state, so the number of active
\* loops stays what it was.
C3_SecondStartIsNoop ==
    [][\A t \in Callers : (StartCheck(t) /\ running)
        => /\ pc'[t] = "idle"
           /\ loopPc' = loopPc
           /\ UNCHANGED <<config, disk, auto_enabled, running, auto_thread,
                          next_update_time>>]_vars

\* a start call has just found the loop running, exactly one loop is active
C3_Witness ==
    /\ lastCtl = "skipped"
    /\ running
    /\ Cardinality(ActiveLoops) = 1
    /\ \A t \in Callers : ~InStart(t) /\ ~InStop(t)

\* C4: at most one scheduler loop thread is active at any moment.
C4_AtMostOneLoop == Cardinality(ActiveLoops) <= 1

\* C5: two start requests never both pass the test of the running flag:
\* at most one of two concurrent requests goes on to spawn a loop.
C5_StartsExclusive == ~(\A t \in Callers : pc[t] = "start_set")

\* C6: at most one extraction pipeline run is in flight at any time.
C6_OneRunInFlight == RunsInFlight <= 1

\* C7: when stop_auto_update returns, enabled is false in memory and in the
\* persisted config, running is false and next_update_time is None.
C7_StopPostcondition ==
    [][\A t \in Callers : StopJoin(t)
        => /\ ~config'.auto_enabled /\ ~disk'.auto_enabled
           /\ ~running'
           /\ next_update_time' = NoTime]_vars

\* C8: after stop_auto_update has returned, and as long as no start request
\* is issued, no loop thread starts a pipeline run.
C8_NoRunAfterStop ==
    [][(lastCtl = "stopped" /\ lastCtl' = "stopped")
        => \A l \in Loops : ~(loopPc[l] # "run" /\ loopPc'[l] = "run")]_vars

\* C9: a loop thread does not sleep on across the end of a slice of its sleep
\* once the stop has been signalled (running is false).
C9_SleepObservesStop ==
    [][\A l \in Loops : LoopSleepTick(l) => running]_vars

\* C10: set_interval(m) stores min(max(m, 1), 1440) in memory and in the
\* persisted config, the stored interval always lies in [1, 1440], and
\* set_interval changes neither enabled, running nor the device registry.
C10_IntervalClamped ==
    /\ config.interval_minutes \in 1..1440
    /\ [][/\ config'.interval_minutes \in 1..1440
          /\ disk'.interval_minutes \in 1..1440
          /\ \A t \in Callers, m \in IntervalInputs : set_interval(t, m)
               => /\ config'.interval_minutes = Min(Max(m, 1), 1440)
                  /\ disk'.interval_minutes = Min(Max(m, 1), 1440)
                  /\ config'.auto_enabled = config.auto_enabled
                  /\ auto_enabled' = auto_enabled
                  /\ running' = running
                  /\ config'.adb_ips = config.adb_ips]_vars

\* 99999 has been clamped to 1440 while the scheduler was running
C10_Witness ==
    /\ config.interval_minutes = 1440
    /\ disk.interval_minutes = 1440
    /\ running /\ config.auto_enabled
    /\ Len(config.adb_ips) = 1

\* the tiers of the privilege escalator, in their fixed order: unprivileged,
\* su 0, su -c, under the names the code returns
FixedTiers == <<"non-root", "su0", "suc">>
IsPrefix(a, b) == Len(a) <= Len(b) /\ a = SubSeq(b, 1, Len(a))

\* C11: run_adb_with_root tries the tiers in the order unprivileged, su 0,
\* su -c and stops at the first tier that succeeds: the tiers tried are a
\* prefix of that order, no tier is tried after a success, the output and
\* name of the successful tier are returned, and 'all-failed' is returned
\* exactly when every one of the three tiers fails.
C11_TiersInOrder ==
    esc.pc = "returned"
        => /\ IsPrefix(esc.tried, FixedTiers)
           /\ \A i \in 1..(Len(esc.tried) - 1) : ~TierSucceeds(esc.out[esc.tried[i]])
           /\ esc.ret.tier # "all-failed"
                => /\ esc.ret.tier = esc.tried[Len(esc.tried)]
                   /\ TierSucceeds(esc.out[esc.ret.tier])
                   /\ esc.ret.out = esc.out[esc.ret.tier]
           /\ (esc.ret.tier = "all-failed")
                <=> (\A t \in AllTiers : ~TierSucceeds(esc.out[t]))

\* C12: a stage (cp) or direct pull command is only ever issued against a
\* candidate that some tier has confirmed present and readable.
C12_OnlyConfirmedStaged ==
    (pipe.staged \cup pipe.pulledDirect) \subseteq pipe.confirmed

\* candidates [P1 absent, P2 present]: every tier found P1 absent, P2 was
\* confirmed, staged, pulled and cleaned up, and nothing was staged against P1
C12_Witness ==
    /\ pipe.pc = "done" /\ pipe.output = Success
    /\ pipe.confirmed = {2} /\ pipe.staged = {2} /\ pipe.pulledDirect = {}
    /\ {<<1, "None">>, <<1, "su0">>, <<1, "suc">>} \subseteq pipe.probed
    /\ pipe.pulledStaged /\ pipe.removed

\* C13: within one run, no candidate that comes after a confirmed candidate
\* is probed.
C13_NoProbeAfterConfirm ==
    \A pr \in pipe.probed : \A j \in pipe.confirmed : pr[1] <= j

\* the three tiers of a probe, under the names of the code
ProbeTiers == {"None", "su0", "suc"}
\* the probes that come before the probe of candidate i with tier number k
ProbesBefore(i, k) ==
    {<<j, root_methods[m]>> : <<j, m>> \in
        {q \in PathIdx \X (1..Len(root_methods)) : q[1] < i \/ (q[1] = i /\ q[2] < k)}}

\* C14: every probe is of a candidate and tier not probed before in the run
\* and comes later, in the declared order of candidates and tiers, than
\* every probe made so far (while nothing is confirmed, every earlier
\* candidate and tier has been probed); a run that ends its probing with no
\* candidate confirmed has probed every
\* candidate with each of the three tiers, has issued no stage, pull or
\* cleanup command, and returns the not-found result.
C14_ExhaustsThenNotFound ==
    [][/\ PipeLs => /\ <<pipe.idx, root_methods[pipe.tier]>> \notin pipe.probed
                    /\ pipe.probed \subseteq ProbesBefore(pipe.idx, pipe.tier)
                    /\ (pipe.confirmed = {} =>
                          pipe.probed = ProbesBefore(pipe.idx, pipe.tier))
       /\ (PipeLs /\ pipe'.pc = "post" /\ pipe'.confirmed = {})
            => /\ pipe'.result = NotFound
               /\ pipe'.probed = PathIdx \X ProbeTiers
               /\ pipe'.staged = {} /\ pipe'.pulledDirect = {}
               /\ ~pipe'.pulledStaged /\ ~pipe'.removed]_vars

\* a run has returned not-found after 15 probes and nothing else
C14_Witness ==
    /\ pipe.pc = "done" /\ pipe.output = NotFound
    /\ pipe.confirmed = {}
    /\ Cardinality(pipe.probed) = 15
    /\ pipe.staged = {} /\ pipe.pulledDirect = {} /\ ~pipe.pulledStaged /\ ~pipe.removed

\* C15: when every copy method has failed to produce a verified staged copy
\* of a confirmed candidate, the direct pull of that candidate follows, and
\* no pull of the staging location is issued afterwards in that run.
C15_DirectPullNoStagedPull ==
    [][/\ (PipeCopy /\ pipe'.stageFailed # pipe.stageFailed)
            => /\ pipe'.pc = "direct"
               /\ pipe'.idx = pipe.idx
       /\ pipe.stageFailed # {} => ~PipePullStaged]_vars

\* C16: a run that returns success after a verified staged copy was made has
\* issued the remove command for the staged copy.
C16_SuccessImpliesCleanup ==
    (pipe.pc \in {"post", "done"} /\ pipe.result = Success /\ pipe.stagedCopy)
        => pipe.removed

\* the terminal results of the extraction and of run_getsql
TerminalResults ==
    {Success, AdbNotAvailable, NoDevice, NotFound, ExtractionError, RunError}

\* C17: no error leaves extract_sqlite_data_from_device or run_getsql: when
\* the extraction is over it has returned a terminal result with a success
\* flag, and so has run_getsql when it is over.
C17_NoExceptionEscapes ==
    /\ ~pipe.escaped
    /\ pipe.pc \in {"post", "done"}
          => pipe.result \in TerminalResults /\ pipe.result.success \in BOOLEAN
    /\ pipe.pc = "done"
          => pipe.output \in TerminalResults /\ pipe.output.success \in BOOLEAN

\* an unexpected error inside the extraction became the extraction-error
\* result, which run_getsql returned
C17_Witness ==
    /\ pipe.pc = "done"
    /\ pipe.result = ExtractionError
    /\ pipe.output = ExtractionError
    /\ pipe.probed # {}

\* v is s without its leading and trailing whitespace
IsTrimOf(v, s) ==
    \E i, j \in 0..Len(s) :
        /\ i + j <= Len(s)
        /\ v = SubSeq(s, i + 1, Len(s) - j)
        /\ \A k \in 1..i : s[k] \in Whitespace
        /\ \A k \in (Len(s) - j + 1)..Len(s) : s[k] \in Whitespace
        /\ v = <<>> \/ (v[1] \notin Whitespace /\ v[Len(v)] \notin Whitespace)

C19_PingFailShortCircuits ==
    (probe.pc = "returned" /\ ~net[probe.ip].ping)
        => /\ probe.ret = ProbeResult(FALSE, FALSE)
           /\ probe.issued = <<"ping">>

\* ping failed for an address whose adb connect and adb devices would have
\* answered 'connected' and 'device'
C19_Witness ==
    /\ probe.pc = "returned"
    /\ ~net[probe.ip].ping
    /\ net[probe.ip].connect /\ net[probe.ip].devices_ok
    /\ net[probe.ip].line = "device"
    /\ probe.ret = ProbeResult(FALSE, FALSE)

\* C20: when ping succeeds and the adb devices list holds a line with the
\* address and 'unauthorized', test_adb_connection returns connected false
\* and unauthorized true, whatever adb connect printed.
C20_UnauthorizedReported ==
    (/\ probe.pc = "returned"
     /\ net[probe.ip].ping
     /\ net[probe.ip].devices_ok /\ net[probe.ip].line = "unauthorized")
        => probe.ret = ProbeResult(FALSE, TRUE)

\* the entries get_adb_ips shows for address a
ShownOf(reg, a) == {get_adb_ips(reg)[i] : i \in {k \in 1..Len(reg) : reg[k].ip = a}}

\* C21: after a registerDevice(a, n) request the registry shows the entry
\* {a, n}, after an unregisterDevice(a) request it shows no entry of address
\* a, and either request leaves the entries of every other address as they were
C21_RegisterUnregister ==
    /\ (Len(http.req) > 0 /\ http.req[1] = "add" /\ http.req[3] # NoName) =>
          /\ Entry(http.req[2], http.req[3]) \in ShownOf(config.adb_ips, http.req[2])
          /\ \A a \in RegAddrs \ {http.req[2]} :
                ShownOf(config.adb_ips, a) = ShownOf(http.before, a)
    /\ (Len(http.req) > 0 /\ http.req[1] = "remove") =>
          /\ ShownOf(config.adb_ips, http.req[2]) = {}
          /\ \A a \in RegAddrs \ {http.req[2]} :
                ShownOf(config.adb_ips, a) = ShownOf(http.before, a)

\* C22: at every moment, also while a save is under way in one thread or in
\* two and when the process is killed in the middle of one, the document in
\* CONFIG_FILE is a whole configuration, never a truncated or partly written one
C22_DocumentNeverPartial == Parses(disk)

\* C23: a probeDevice request carrying an address is answered with a success
\* response that reports the connected flag of the probe and its transcript,
\* whatever the probe found
C23_ProbeRequestAnswered ==
    probe.pc = "answered" =>
        /\ http.code = 200
        /\ http.body.status = "success"
        /\ http.body.connected = probe.ret.connected
        /\ http.body.commandOutput = ReturnedTuple(probe.ret)[2]

\* C24: when the enable request was rejected for want of a connected device,
\* the response of the control endpoint reports the rejection, not success
C24_RejectionSurfaced ==
    ret = Rejection => handle_control_toggle(ret).body.status # "success"

\* C25: an enable request of the webhook that passed the connectivity gate and
\* returns success leaves auto_enabled true in memory and in the document and
\* exactly one loop thread in the loop, also when a status request had forced
\* auto_enabled false while the earlier loop had not yet seen it
C25_EnableSuccessPostcondition ==
    [][((StartCheck("web") \/ StartSet("web")) /\ ret'.success)
          => /\ config'.auto_enabled
             /\ auto_enabled'
             /\ disk'.auto_enabled
             /\ Cardinality(ActiveLoops') = 1]_vars

\* C26: a loop thread leaves the loop only from the top of an iteration, on
\* finding running or auto_enabled false; from the probe of the devices and
\* from the run it goes on to the run or to a sleep, whether the run failed, no
\* device answered or an error was raised; and every sleep ends at the top of
\* the next iteration
C26_LoopExitsOnlyAtTop ==
    [][\A l \in Loops :
          /\ (loopPc[l] # "exit" /\ loopPc'[l] = "exit")
                => (loopPc[l] = "top" /\ ~(running /\ config.auto_enabled))
          /\ (loopPc[l] # "dead" /\ loopPc'[l] = "dead") => loopPc[l] = "exit"
          /\ (loopPc[l] = "probe" /\ loopPc'[l] # "probe")
                => loopPc'[l] \in {"run", "sleep", "backoff"}
          /\ (loopPc[l] = "run" /\ loopPc'[l] # "run")
                => loopPc'[l] \in {"sleep", "backoff"}
          /\ (Sleeping(l) /\ loopPc'[l] # loopPc[l])
                => loopPc'[l] \in {"sleeping", "top"}]_vars
\* a loop thread is in the backoff sleep of the except clause while the loop is
\* still wanted
C26_Witness ==
    \E l \in Loops : loopPc[l] = "backoff" /\ running /\ config.auto_enabled

\* C27: once auto_enabled is false while a loop thread is in the loop, and
\* unless auto_enabled is set true again, the thread in the end leaves the loop
\* and running is false; and an iteration that finds auto_enabled false at the
\* top goes to the exit, not to the probe or the run
C27_ForcedOffObserved ==
    /\ \A l \in Loops :
          (InLoop(l) /\ ~config.auto_enabled)
              ~> ((loopPc[l] = "dead" /\ ~running) \/ config.auto_enabled)
    /\ [][\A l \in Loops :
             (loopPc[l] = "top" /\ ~config.auto_enabled /\ loopPc'[l] # "top")
                 => loopPc'[l] = "exit"]_vars
\* a loop thread found auto_enabled false while running was still true: the
\* flag was forced by a status request, not cleared by stop_auto_update
C27_Witness ==
    \E l \in Loops : loopPc[l] = "exit" /\ running /\ ~config.auto_enabled

\* C28: every run of the pipeline the loop drives with a device connected,
\* whatever its outcome, has recorded its completion time and its statistics
\* when run_getsql returns to the loop, that is before the loop computes
\* next_update_time
C28_EveryRunRecorded ==
    (pipe.pc = "done" /\ pipe.probed # {}) => (pipe.last_run /\ pipe.last_stats)

\* C29: the not-found outcome is returned only by a run in which no candidate
\* was confirmed; a run that confirmed a candidate and failed to stage and to
\* pull it returns another outcome
C29_NotFoundMeansNeverConfirmed ==
    (pipe.pc \in {"post", "done"} /\ pipe.result = NotFound) => pipe.confirmed = {}

\* the place of a root method in the order None, su0, suc
TierRank(t) == CHOOSE k \in 1..3 : <<"None", "su0", "suc">>[k] = t

\* C30: the cp of a candidate is run first with the method whose ls confirmed
\* the candidate, then with None, su0, suc in this order, four times at most;
\* and /sdcard/sql.db is pulled only after an ls of it succeeded in this run:
\* the ls after a cp of the same candidate, or the ls that confirmed
\* /sdcard/sql.db as a candidate
C30_StagingOrder ==
    /\ pipe.copies # <<>> =>
          /\ pipe.idx \in pipe.confirmed
          /\ <<pipe.idx, pipe.copies[1]>> \in pipe.probed
          /\ \A x \in pipe.probed :
                x[1] = pipe.idx => TierRank(x[2]) <= TierRank(pipe.copies[1])
          /\ IsPrefix(Tail(pipe.copies), <<"None", "su0", "suc">>)
          /\ Len(pipe.copies) <= 4
    /\ pipe.pc = "pull" => pipe.copy_success
    /\ pipe.pulledStaged => pipe.stagedCopy
    /\ \A i \in pipe.pulledDirect : possible_paths[i] = dst => i \in pipe.confirmed
\* a candidate confirmed with su 0, staged at the fourth cp, and pulled
C30_Witness ==
    pipe.pc = "cleanup" /\ Len(pipe.copies) = 4 /\ pipe.copies[1] = "su0"

\* C31: the dictionary a pipeline run returns to its caller holds the
\* diagnostic trace only when the run did not succeed (a successful result
\* carries no trace), and the trace never holds entries of an earlier run
C31_TraceOnlyOnFailure ==
    pipe.pc = "done" =>
        /\ pipe.output.success => pipe.debug = EmptyLog
        /\ "earlier" \notin pipe.debug

Commands(q) == IF q = "cp" THEN 2 ELSE 1
\* the most commands one candidate path can take: the ls of every tier, the
\* cp and its check with every copy method, the staged pull, and the direct
\* pull or the cleanup
PerCandidate == Len(root_methods) + 2 * Len(copy_methods("None")) + 2
\* adb version, adb devices, and every candidate
MaxCommands == 2 + Len(possible_paths) * PerCandidate
\* the most commands a run at the position of p can still issue
Remaining(p) ==
    LET rest == (Len(possible_paths) - p.idx) * PerCandidate
        copies == Len(copy_methods(p.used_root)) IN
    CASE p.pc = "version" -> MaxCommands
      [] p.pc = "device" -> MaxCommands - 1
      [] p.pc = "ls" -> rest + (Len(root_methods) - p.tier + 1) + 2 * copies + 2
      [] p.pc = "cp" -> rest + 2 * (copies - p.attempt + 1) + 2
      [] p.pc = "pull" -> rest + 2
      [] p.pc = "direct" -> rest + 1
      [] p.pc = "cleanup" -> 1
      [] OTHER -> 0

\* C33: a run issues at most 2 + paths * (tiers + 2 * copy methods + 2) bridge
\* commands: every step of the extraction that issues commands lowers the
\* number the run can still issue by at least as many, and that number is
\* never negative, so that the run reaches its return
C33_CommandsBounded ==
    [][(pipe.pc \in InTry /\ pipe' # pipe)
          => /\ Remaining(pipe') >= 0
             /\ Remaining(pipe') + (IF pipe'.pc = "except" THEN 0 ELSE Commands(pipe.pc))
                   <= Remaining(pipe)
             /\ Remaining(pipe) <= MaxCommands]_vars
\* the longest run has returned: every path probed with every tier and
\* confirmed, staged, and pulled both ways in vain
C33_Witness ==
    /\ pipe.pc = "done"
    /\ pipe.output = NotFound
    /\ Cardinality(pipe.probed) = Len(possible_paths) * Len(root_methods)
    /\ pipe.confirmed = PathIdx
    /\ pipe.pulledDirect = PathIdx
    /\ pipe.pulledStaged
    /\ pipe.stageFailed = {}

\* C34: a run returns success only if an adb pull of that same run has
\* written the local file; a copy an earlier run left behind never makes a
\* run whose pulls all failed report success
C34_SuccessNeedsOwnPull ==
    (pipe.pc \in {"post", "done"} /\ pipe.result.success) => pipe.transferred

\* C35: a run never removes the file it selected as its source: the rm of
\* the cleanup is only issued when the selected candidate path is not the
\* staging destination /sdcard/sql.db
C35_SourceNeverRemoved ==
    pipe.removed => possible_paths[pipe.idx] # dst

\* C36: whenever main() is past its startup and no start or stop call is in
\* progress, auto_enabled true implies an active scheduler loop: running is
\* true and a loop thread is alive inside the loop
C36_EnabledImpliesLoop ==
    (pc["main"] # "boot" /\ \A t \in Callers : ~InStart(t) /\ ~InStop(t))
        => (config.auto_enabled => (running /\ ActiveLoops # {}))

\* C37: whenever the scheduler is stopped (stop_auto_update has returned, no
\* start has been called since and auto_enabled is false), next_update_time
\* is None: a loop iteration that ends after the stop returned does not set it
C37_StoppedHasNoNextRun ==
    (lastCtl = "stopped" /\ ~config.auto_enabled
        /\ \A t \in Callers : ~InStart(t) /\ ~InStop(t))
        => next_update_time = NoTime

\* C38: a status request turns auto_enabled off only when the device check of
\* the loop, get_connected_device(), finds no online device either (so not
\* when a device is online without being in the registry); it never turns
\* auto_enabled on and never changes the interval or the registry
C38_StatusForcesOffLikeLoop ==
    [][serve_status =>
          /\ (config.auto_enabled /\ ~config'.auto_enabled) => ~get_connected_device
          /\ ~config.auto_enabled => ~config'.auto_enabled
          /\ config'.interval_minutes = config.interval_minutes
          /\ config'.adb_ips = config.adb_ips]_vars

\* C39: the registry never holds two entries of one address; a register of
\* an address the registry holds, and an unregister or a rename of an address
\* it does not hold, leave the registry as it was
C39_NoDuplicateAddresses ==
    /\ \A i, j \in 1..Len(config.adb_ips) :
          config.adb_ips[i].ip = config.adb_ips[j].ip => i = j
    /\ (Len(http.req) > 0 /\ http.req[1] = "add"
          /\ http.req[2] \in RegisteredIps(http.before))
        => config.adb_ips = http.before
    /\ (Len(http.req) > 0 /\ http.req[1] \in {"remove", "rename"}
          /\ http.req[2] \notin RegisteredIps(http.before))
        => config.adb_ips = http.before
\* a register of an address the full registry holds under another name has
\* been answered with success
C39_Witness ==
    /\ Len(http.req) > 0 /\ http.req[1] = "add" /\ http.code = 200
    /\ http.req[3] # NoName
    /\ Len(http.before) = Cardinality(RegAddrs)
    /\ \E i \in 1..Len(http.before) :
          /\ http.before[i].ip = http.req[2]
          /\ http.before[i].name # http.req[3]

\* C40: config['preferred_device'] is None or the address of an entry of
\* the registry, after any registry and set_preferred_device requests
C40_PreferredIsRegistered ==
    config.preferred_device = NoPreferred
        \/ config.preferred_device \in RegisteredIps(config.adb_ips)

====
